---- MODULE Spec2Model ----
(***************************************************************************)
(* One request handled by the page script of src/index.js: main() reads   *)
(* the query parameters, interpolates them into the Python program, and   *)
(* scrape_and_generate_rss fetches the page, walks its <tr> rows and      *)
(* builds the feed with feedgen.                                          *)
(*                                                                         *)
(* Text is a sequence of tokens; " " is a whitespace token.  A DOM row is *)
(* the sequence of its <td> cells, a cell a class and a sequence of nodes *)
(* (text nodes and anchors).  An href is a record [pre, body, suf] whose  *)
(* string value is the concatenation of the three parts.                  *)
(***************************************************************************)
EXTENDS Integers, Sequences, FiniteSets, TLC

\* ------------------------------------------------------------------ bounds
MaxRows == 2
MaxCap == 1

\* ------------------------------------------------------- program constants
DefaultMaxItems == 20

MagnetPrefix == "magnet:?xt=urn:btih:"
TorrentSuffix == ".torrent"
CenterClass == "text-center"

\* ------------------------------------------------------------- DOM values
NoHref == [pre |-> "", body |-> "", suf |-> ""]
Magnet(h) == [pre |-> MagnetPrefix, body |-> h, suf |-> ""]
Page(p) == [pre |-> "", body |-> p, suf |-> ""]
Torrent(p) == [pre |-> "", body |-> p, suf |-> TorrentSuffix]

Txt(raw) == [tag |-> "text", hasHref |-> FALSE, href |-> NoHref, raw |-> raw]
A(href, raw) == [tag |-> "a", hasHref |-> TRUE, href |-> href, raw |-> raw]
Td(cls, nodes) == [cls |-> cls, nodes |-> nodes]

GoodTime == "2024-03-15 10:30:00"
BadTime == "3 days ago"

\* str.strip(): leading and trailing whitespace removed
RECURSIVE LStrip(_)
LStrip(s) == IF s # <<>> /\ Head(s) = " " THEN LStrip(Tail(s)) ELSE s

RECURSIVE RStrip(_)
RStrip(s) ==
    IF s # <<>> /\ s[Len(s)] = " " THEN RStrip(SubSeq(s, 1, Len(s) - 1)) ELSE s

Strip(s) == RStrip(LStrip(s))

\* element.get_text(strip=True): the stripped text pieces of the element's
\* text nodes (an anchor's included), empty pieces dropped, joined by "".
RECURSIVE GetText(_)
GetText(nodes) ==
    IF nodes = <<>> THEN <<>> ELSE Strip(Head(nodes).raw) \o GetText(Tail(nodes))

\* the anchors of a sequence of nodes, in document order
AnchorsOf(nodes) == SelectSeq(nodes, LAMBDA n : n.tag = "a")

\* row.select('a'): the anchors of all cells of the row, in document order
RECURSIVE RowAnchors(_)
RowAnchors(row) ==
    IF row = <<>> THEN <<>> ELSE AnchorsOf(Head(row).nodes) \o RowAnchors(Tail(row))

StartsWithMagnet(href) == href.pre = MagnetPrefix
EndsWithTorrent(href) == href.suf = TorrentSuffix

\* row.select_one('a[href^="magnet:?xt=urn:btih:"]'): <<anchor>> or <<>>
MagnetTag(row) ==
    LET ms == SelectSeq(RowAnchors(row),
                        LAMBDA a : a.hasHref /\ StartsWithMagnet(a.href))
    IN  IF ms = <<>> THEN <<>> ELSE <<Head(ms)>>

\* urljoin(url, href): an href whose scheme is not a relative-capable one
\* (magnet:) is returned unchanged; anything else is resolved against url.
UrlJoin(url, href) ==
    IF StartsWithMagnet(href) THEN href
    ELSE [pre |-> url.scheme, body |-> href.body, suf |-> href.suf]

\* lines 129-140: the text of the first a[href] of the row that is neither a
\* magnet link nor a .torrent link
TitleFromLinks(row) ==
    LET links == SelectSeq(RowAnchors(row), LAMBDA a : a.hasHref)
        cand == SelectSeq(links,
                  LAMBDA a : ~(StartsWithMagnet(a.href) \/ EndsWithTorrent(a.href)))
    IN  IF cand = <<>> THEN <<>> ELSE Strip(Head(cand).raw)

\* lines 143-154: the fallback on the second <td>
TitleFromSecondTd(row) ==
    IF Len(row) >= 2
    THEN LET as == AnchorsOf(row[2].nodes)
         IN  IF as # <<>> THEN Strip(Head(as).raw) ELSE GetText(row[2].nodes)
    ELSE <<>>

\* lines 129-154: item_title
ItemTitle(row) ==
    IF TitleFromLinks(row) # <<>> THEN TitleFromLinks(row) ELSE TitleFromSecondTd(row)

\* row.select('td.text-center')
TimeTds(row) == SelectSeq(row, LAMBDA c : c.cls = CenterClass)

\* the variant that never looks at the third centred cell once a fourth exists
TimeTextFourthOnly(row) ==
    LET tds == TimeTds(row)
    IN  IF Len(tds) >= 4 THEN GetText(tds[4].nodes)
        ELSE IF Len(tds) >= 3 THEN GetText(tds[3].nodes) ELSE <<>>

\* lines 165-173: time_text
TimeText(row) ==
    LET tds == TimeTds(row)
        t4 == IF Len(tds) >= 4 THEN GetText(tds[4].nodes) ELSE <<>>
    IN  IF t4 = <<>> /\ Len(tds) >= 3 THEN GetText(tds[3].nodes) ELSE t4

\* lines 178-183: item_description
ItemDescription(time_text) ==
    IF time_text # <<>> THEN <<"<b>Time:</b> ">> \o time_text
    ELSE <<"No description available.">>

\* datetime.strptime(time_text, '%Y-%m-%d %H:%M:%S') succeeds
Parses(time_text) == time_text = <<GoodTime>>

\* lines 195-208: the publication date given to the entry
PubDate(time_text) ==
    IF time_text # <<>> /\ Parses(time_text)
    THEN [set |-> TRUE, now |-> FALSE, utc |-> time_text]
    ELSE [set |-> TRUE, now |-> TRUE, utc |-> <<>>]

NoDate == [set |-> FALSE, now |-> FALSE, utc |-> <<>>]

\* -------------------------------------------------------------- documents
Plain(text) == Td("", <<Txt(text)>>)
Centre(text) == Td(CenterClass, <<Txt(text)>>)
LinksCell(h) == Td(CenterClass, <<A(Torrent("/dl/" \o h), <<>>), A(Magnet(h), <<>>)>>)
NameCell(p, name) == Td("", <<A(Page(p), <<" ", name, " ">>)>>)

\* a header row: no magnet link at all
RowHeader == <<Plain(<<"Type">>), Plain(<<"Name">>)>>
\* the documented shape (lines 77-80): plain category, name link in the second
\* cell, two magnet anchors, time in the fourth centred cell
RowStd ==
    <<Plain(<<"Anime">>), NameCell("/view/a", "Show A"),
      Td(CenterClass, <<A(Torrent("/dl/a"), <<>>), A(Magnet("aaa"), <<>>),
                        A(Magnet("aaa-alt"), <<>>)>>),
      Centre(<<"1.2 GiB">>), Centre(<<"12">>), Centre(<<" ", GoodTime, " ">>)>>
\* the category of the first cell is itself a link; two centred cells
RowCatLink ==
    <<Td("", <<A(Page("/cat/1"), <<"Anime">>)>>), NameCell("/view/b", "Show B"),
      LinksCell("bbb"), Centre(<<"700 MiB">>)>>
\* the second cell holds an icon anchor (no text) followed by the name as text
RowIcon ==
    <<Plain(<<"Anime">>),
      Td("", <<A(Page("/view/c"), <<>>), Txt(<<" ", "Show C", " ">>)>>),
      LinksCell("ccc"), Centre(<<"2 GiB">>), Centre(<<"3">>), Centre(<<GoodTime>>)>>
\* the second cell holds the name as plain text; three centred cells, the
\* third one a time that does not follow the expected format
RowTextTitle ==
    <<Plain(<<"Anime">>), Plain(<<" ", "Show D", " ">>), LinksCell("ddd"),
      Centre(<<"1 GiB">>), Centre(<<BadTime>>)>>
\* a magnet link, but an empty second cell
RowNoTitle == <<Plain(<<"Anime">>), Plain(<<" ">>), LinksCell("eee")>>
\* four centred cells, the fourth one blank, the third one holding the time
RowEmptyFourth ==
    <<Plain(<<"Anime">>), NameCell("/view/f", "Show F"), LinksCell("fff"),
      Centre(<<"5 GiB">>), Centre(<<GoodTime>>), Centre(<<" ">>)>>
RowShapes ==
    {RowHeader, RowStd, RowCatLink, RowIcon, RowTextTitle, RowNoTitle,
     RowEmptyFourth}

RECURSIVE SeqsUpTo(_, _)
SeqsUpTo(S, n) ==
    IF n = 0 THEN {<<>>}
    ELSE LET shorter == SeqsUpTo(S, n - 1)
         IN  shorter \cup {Append(s, x) : s \in shorter, x \in S}

\* soup.select('tr') of the pages a fetch may return
Documents == SeqsUpTo(RowShapes, MaxRows)

\* ------------------------------------------------------ request parameters
NoUrl == [present |-> FALSE, scheme |-> "", host |-> "", path |-> ""]
Urls ==
    {NoUrl,
     [present |-> TRUE, scheme |-> "", host |-> "", path |-> ""],
     [present |-> TRUE, scheme |-> "", host |-> "", path |-> "list.html"],
     [present |-> TRUE, scheme |-> "https", host |-> "example.org", path |-> "/list"]}

\* JavaScript truthiness of urlParams.get(...): null and "" are falsy
Truthy(u) == u.present /\ ~(u.scheme = "" /\ u.host = "" /\ u.path = "")

UrlStr(u) == <<u.scheme, u.host, u.path>>

\* the max_items query parameter as text: absent, "", digits, a bare word, a
\* quoted word
MaxItemsParams ==
    {[present |-> FALSE, kind |-> "empty", n |-> 0],
     [present |-> TRUE, kind |-> "empty", n |-> 0],
     [present |-> TRUE, kind |-> "ident", n |-> 0],
     [present |-> TRUE, kind |-> "quoted", n |-> 0]}
    \cup {[present |-> TRUE, kind |-> "digits", n |-> k] : k \in 0..MaxCap}

\* line 50: urlParams.get('max_items') || '20'
MaxItemsText(p) ==
    IF p.present /\ p.kind # "empty" THEN [kind |-> p.kind, n |-> p.n]
    ELSE [kind |-> "digits", n |-> DefaultMaxItems]

\* line 232: max_items = ${max_items}, the text evaluated as a Python expression
PyEval(t) ==
    CASE t.kind = "digits" -> [kind |-> "int", n |-> t.n]
      [] t.kind = "quoted" -> [kind |-> "str", n |-> 0]
      [] OTHER -> [kind |-> "NameError", n |-> 0]

\* ------------------------------------------------------------------- feeds
\* the statuses a response may carry; 0 stands for "no response"
HttpStatuses == {200, 404, 500}
NoResponse == 0

\* lines 88-89: the message raised for a response that is not ok
HttpErrorMsg(status) == <<"HTTP Error ", ToString(status)>>
\* the message of the exception pyfetch raises when the transport fails
TransportMsg == <<"Failed to fetch">>
\* int('abc') at line 115
IntErrorMsg == <<"invalid literal for int() with base 10">>
\* feedgen's rss_entry on an entry with neither title nor description
RequiredMsg == <<"Required fields not set">>

ErrorTitle == <<"Processing Error">>

\* lines 218-227: the feed built by the except branch; it gets no entry
ErrorFeed(url, msg) ==
    [title |-> ErrorTitle, id |-> UrlStr(url), link |-> UrlStr(url),
     description |-> <<"An error occurred processing ">> \o UrlStr(url) \o <<": ">> \o msg,
     entries |-> <<>>]

\* lines 96-105: the feed generator after its header is set (the page's
\* <title> text, or "RSS for <host>" when the page has none)
NewFeed(url, page_title) ==
    [title |-> IF page_title # <<>> THEN page_title ELSE <<"RSS for ", url.host>>,
     id |-> UrlStr(url), link |-> UrlStr(url),
     description |-> <<"Generated RSS feed for ">> \o UrlStr(url),
     entries |-> <<>>]

NoFeed ==
    [title |-> <<>>, id |-> <<>>, link |-> <<>>, description |-> <<>>, entries |-> <<>>]

PageTitles == {<<>>, <<"Index">>}

\* the statements of the try block of lines 185-210, in order
AddSteps == <<"add_entry", "id", "title", "link", "description", "pubDate">>
StepNo(f) == CHOOSE k \in 1..Len(AddSteps) : AddSteps[k] = f
\* where the block may raise; "none" is the run that reaches line 210
FailPoints == {"none"} \cup {AddSteps[k] : k \in 1..Len(AddSteps)}
\* step s has run when the block raises at f
Ran(s, f) == f = "none" \/ StepNo(s) < StepNo(f)

\* lines 186-208: the entry as it stands when the block raises at f (the whole
\* entry when f = "none"); row is the index of the <tr> it was made from
EntryAt(f, n, magnet, item_title, time_text) ==
    [row |-> n,
     id |-> IF Ran("id", f) THEN magnet ELSE NoHref,
     title |-> IF Ran("title", f) THEN item_title ELSE <<>>,
     link |-> IF Ran("link", f) THEN magnet ELSE NoHref,
     description |-> IF Ran("description", f) THEN ItemDescription(time_text) ELSE <<>>,
     pubDate |-> IF Ran("pubDate", f) THEN PubDate(time_text) ELSE NoDate]

\* line 186: fg.add_entry() is called without an order argument, and feedgen's
\* default is order='prepend': the new entry is inserted at the head of the
\* feed's entry list, which rss_str writes out front to back
AddEntry(entries, e) == <<e>> \o entries

\* line 216: rss_str raises ValueError when an entry has neither a title nor a
\* description (feedgen's rss_entry)
Serializable(entries) ==
    \A k \in 1..Len(entries) : entries[k].title # <<>> \/ entries[k].description # <<>>

\* the variant that treats every status as a success
ResponseOkAlways(status) == TRUE

\* line 88: response.ok
ResponseOk(status) == status \in 200..299

NoLoc == [n |-> 0, what |-> "none", magnet |-> NoHref, item_title |-> <<>>,
          time_text |-> <<>>, fail |-> "none"]

NoFailure == [kind |-> "none", msg |-> <<>>]

\* --------------------------------------------------------------- the state
VARIABLES pc, target_url, max_items, fetches, response, failure, rows, i, items_added,
          fg, loc, out

vars == <<pc, target_url, max_items, fetches, response, failure, rows, i, items_added,
          fg, loc, out>>

NoOut == [kind |-> "none", text |-> <<>>, feed |-> NoFeed]
FeedOut(feed) == [kind |-> "feed", text |-> <<>>, feed |-> feed]
TextOut(text) == [kind |-> "text", text |-> text, feed |-> NoFeed]

Init ==
    /\ pc = "main"
    /\ target_url = NoUrl
    /\ max_items = [kind |-> "digits", n |-> DefaultMaxItems]
    /\ fetches = 0
    /\ response = NoResponse
    /\ failure = NoFailure
    /\ rows = <<>>
    /\ i = 0
    /\ items_added = 0
    /\ fg = NoFeed
    /\ loc = NoLoc
    /\ out = NoOut

\* lines 48-55: main() reads the parameters; without a url it reports the
\* missing parameter and returns
MainMissingUrl ==
    /\ pc = "main"
    /\ \E u \in Urls, m \in MaxItemsParams :
         /\ ~Truthy(u)
         /\ target_url' = u
         /\ max_items' = MaxItemsText(m)
    /\ out' = TextOut(<<"Error: Missing required 'url' parameter.">>)
    /\ pc' = "done"
    /\ UNCHANGED <<fetches, response, failure, rows, i, items_added, fg, loc>>

\* lines 48-61: main() reads the parameters and builds the Python program
MainStart ==
    /\ pc = "main"
    /\ \E u \in Urls, m \in MaxItemsParams :
         /\ Truthy(u)
         /\ target_url' = u
         /\ max_items' = MaxItemsText(m)
    /\ pc' = "python"
    /\ UNCHANGED <<fetches, response, failure, rows, i, items_added, fg, loc,
                   out>>

\* lines 231-232, 243, 275-277: the interpolated assignment raises NameError
\* for a bare word; runPythonAsync rejects and main()'s catch prints the error
RunPythonRaises ==
    /\ pc = "python"
    /\ PyEval(max_items).kind = "NameError"
    /\ out' = TextOut(<<"Error: name is not defined">>)
    /\ pc' = "done"
    /\ UNCHANGED <<target_url, max_items, fetches, response, failure, rows, i,
                   items_added, fg, loc>>

\* lines 231-235: the parameters become Python values and the scrape is called
RunPython ==
    /\ pc = "python"
    /\ PyEval(max_items).kind # "NameError"
    /\ max_items' = PyEval(max_items)
    /\ pc' = "fetch"
    /\ UNCHANGED <<target_url, fetches, response, failure, rows, i,
                   items_added, fg, loc, out>>

\* lines 218-227 and 247-265: the except branch returns the error feed, which
\* main() displays
Except(kind, msg) ==
    /\ failure' = [kind |-> kind, msg |-> msg]
    /\ out' = FeedOut(ErrorFeed(target_url, msg))
    /\ pc' = "done"

\* lines 87-89: the one pyfetch; the response is not ok
FetchHttpError ==
    /\ pc = "fetch"
    /\ fetches' = fetches + 1
    /\ \E status \in HttpStatuses :
         /\ ~ResponseOk(status)
         /\ response' = status
         /\ Except("http", HttpErrorMsg(status))
    /\ UNCHANGED <<target_url, max_items, rows, i, items_added, fg, loc>>

\* line 87: the one pyfetch raises (the host is unreachable)
FetchRaises ==
    /\ pc = "fetch"
    /\ fetches' = fetches + 1
    /\ response' = NoResponse
    /\ Except("transport", TransportMsg)
    /\ UNCHANGED <<target_url, max_items, rows, i, items_added, fg, loc>>

\* lines 87-112: the one pyfetch answers; the page is parsed, the feed header
\* is set and the rows are selected.  A response that is not ok reaches this
\* point only if line 88 lets it through.
FetchOk ==
    /\ pc = "fetch"
    /\ fetches' = fetches + 1
    /\ \E status \in HttpStatuses :
         /\ ResponseOk(status)
         /\ response' = status
    /\ \E doc \in Documents, page_title \in PageTitles :
         /\ rows' = doc
         /\ fg' = NewFeed(target_url, page_title)
    /\ i' = 0
    /\ items_added' = 0
    /\ pc' = "loop"
    /\ UNCHANGED <<target_url, max_items, failure, loc, out>>

Row == rows[i + 1]

\* line 114: the rows are exhausted
LoopEnd ==
    /\ pc = "loop"
    /\ i = Len(rows)
    /\ pc' = "serialize"
    /\ UNCHANGED <<target_url, max_items, fetches, response, failure, rows, i, items_added,
                   fg, loc, out>>

\* line 115: int(max_items) raises ValueError for a string that is no number
LoopCapRaises ==
    /\ pc = "loop"
    /\ i < Len(rows)
    /\ max_items.kind = "str"
    /\ Except("int", IntErrorMsg)
    /\ UNCHANGED <<target_url, max_items, fetches, response, rows, i, items_added,
                   fg, loc>>

\* line 115: items_added >= int(max_items)
CapReached(added, cap) == added >= cap

\* lines 115-116: the cap is reached
LoopBreak ==
    /\ pc = "loop"
    /\ i < Len(rows)
    /\ max_items.kind = "int"
    /\ CapReached(items_added, max_items.n)
    /\ pc' = "serialize"
    /\ UNCHANGED <<target_url, max_items, fetches, response, failure, rows, i, items_added,
                   fg, loc, out>>

Below == pc = "loop" /\ i < Len(rows) /\ max_items.kind = "int"
              /\ ~CapReached(items_added, max_items.n)

\* lines 119-122: no magnet link in the row
LoopSkipNoMagnet ==
    /\ Below
    /\ MagnetTag(Row) = <<>>
    /\ loc' = [NoLoc EXCEPT !.n = i + 1, !.what = "no_magnet"]
    /\ i' = i + 1
    /\ UNCHANGED <<pc, target_url, max_items, fetches, response, failure, rows, items_added,
                   fg, out>>

\* lines 119-159: a magnet link, but no title
LoopSkipNoTitle ==
    /\ Below
    /\ MagnetTag(Row) # <<>>
    /\ ItemTitle(Row) = <<>>
    /\ loc' = [NoLoc EXCEPT !.n = i + 1, !.what = "no_title",
                            !.magnet = UrlJoin(target_url, MagnetTag(Row)[1].href)]
    /\ i' = i + 1
    /\ UNCHANGED <<pc, target_url, max_items, fetches, response, failure, rows, items_added,
                   fg, out>>

\* lines 119-213: the row has a magnet link and a title; the try block adds
\* the entry, and an exception raised at step f of the block is logged
LoopAdd ==
    /\ Below
    /\ MagnetTag(Row) # <<>>
    /\ ItemTitle(Row) # <<>>
    /\ \E f \in FailPoints :
         LET magnet == UrlJoin(target_url, MagnetTag(Row)[1].href)
             title == ItemTitle(Row)
             time == TimeText(Row)
         IN  /\ loc' = [n |-> i + 1, what |-> "add", magnet |-> magnet,
                        item_title |-> title, time_text |-> time, fail |-> f]
             /\ fg' = IF Ran("add_entry", f)
                      THEN [fg EXCEPT !.entries =
                              AddEntry(fg.entries, EntryAt(f, i + 1, magnet, title, time))]
                      ELSE fg
             /\ items_added' = IF f = "none" THEN items_added + 1 ELSE items_added
    /\ i' = i + 1
    /\ UNCHANGED <<pc, target_url, max_items, fetches, response, failure, rows,
                   out>>

\* line 216 and 218-227: rss_str raises on an entry that was left without
\* title and description
SerializeRaises ==
    /\ pc = "serialize"
    /\ ~Serializable(fg.entries)
    /\ Except("rss", RequiredMsg)
    /\ UNCHANGED <<target_url, max_items, fetches, response, rows, i,
                   items_added, fg, loc>>

\* lines 215-216 and 247-265: the feed is written out and displayed
Serialize ==
    /\ pc = "serialize"
    /\ Serializable(fg.entries)
    /\ out' = FeedOut(fg)
    /\ pc' = "done"
    /\ UNCHANGED <<target_url, max_items, fetches, response, failure, rows, i, items_added,
                   fg, loc>>

Next ==
    \/ MainMissingUrl
    \/ MainStart
    \/ RunPythonRaises
    \/ RunPython
    \/ FetchHttpError
    \/ FetchRaises
    \/ FetchOk
    \/ LoopEnd
    \/ LoopCapRaises
    \/ LoopBreak
    \/ LoopSkipNoMagnet
    \/ LoopSkipNoTitle
    \/ LoopAdd
    \/ SerializeRaises
    \/ Serialize

Spec == Init /\ [][Next]_vars

\* ------------------------------------------------------------- properties
\* a valid absolute URL: scheme and host both non-empty
IsValidUrl(u) == u.present /\ u.scheme # "" /\ u.host # ""

HasMagnet(row) ==
    \E k \in 1..Len(RowAnchors(row)) :
       RowAnchors(row)[k].hasHref /\ StartsWithMagnet(RowAnchors(row)[k].href)

FirstMagnetHref(row) ==
    LET as == RowAnchors(row)
        k == CHOOSE k \in 1..Len(as) :
               /\ as[k].hasHref /\ StartsWithMagnet(as[k].href)
               /\ \A j \in 1..(k - 1) : ~(as[j].hasHref /\ StartsWithMagnet(as[j].href))
    IN  as[k].href

SecondCellNonEmpty(row) == Len(row) >= 2 /\ GetText(row[2].nodes) # <<>>

\* the text of the k-th cell of the centred-text class
CentredText(row, k) == GetText(TimeTds(row)[k].nodes)

\* the feed entries made from row n
EntriesOf(entries, n) == {k \in 1..Len(entries) : entries[k].row = n}

\* the request ended with the feed of extracted items
FeedDone == pc = "done" /\ out.kind = "feed" /\ failure.kind = "none"

\* the request named a valid absolute URL
ValidRequest == pc # "main" /\ IsValidUrl(target_url)

\* every entry of the feed went through the whole try block
AllComplete(entries) == \A k \in 1..Len(entries) : entries[k].pubDate.set

\* C1 (cap): the emitted feed never holds more items than max_items = N, also
\* when the try block of a row raised part-way.
C1_CapInvariant ==
    (ValidRequest /\ FeedDone /\ max_items.kind = "int") =>
        Len(out.feed.entries) <= max_items.n

\* C2: a request whose url is missing or no valid absolute URL ends in an error
\* response and never performs a fetch.
C2_NoFetchForInvalidUrl ==
    (pc # "main" /\ ~IsValidUrl(target_url)) =>
        /\ fetches = 0
        /\ pc = "done" => (out.kind = "text" \/ out.feed.title = ErrorTitle)

\* C3: a feed is either made of extracted items only, or it is an error outcome
\* holding exactly one synthetic error item.
C3_OneErrorItem ==
    (ValidRequest /\ pc = "done" /\ out.kind = "feed") =>
        \/ failure.kind = "none" /\ \A k \in 1..Len(out.feed.entries) :
                                       out.feed.entries[k].row \in 1..Len(rows)
        \/ failure.kind # "none" /\ Len(out.feed.entries) = 1

\* C4: a max_items parameter that is present but no number does not fail the
\* request: the cap is the default 20 and a feed of extracted items is produced.
C4_NonNumericFallsBack ==
    (ValidRequest /\ max_items.kind \in {"ident", "quoted", "str"}) =>
        /\ pc # "python" => max_items = [kind |-> "int", n |-> DefaultMaxItems]
        /\ pc = "done" => (out.kind = "feed" /\ failure.kind \in {"none", "http", "transport"})

\* C5: when the fetch fails (a response that is not a success, or the transport
\* raises) the request ends with the "Processing Error" feed whose description
\* ends with the failure message, after exactly one fetch, with no item in it.
C5_FetchFailure ==
    (fetches > 0 /\ response \notin 200..299) =>
        /\ pc = "done"
        /\ fetches = 1
        /\ failure.kind \in {"http", "transport"}
        /\ failure.kind = "http" => failure.msg = <<"HTTP Error ", ToString(response)>>
        /\ out.kind = "feed"
        /\ out.feed.title = <<"Processing Error">>
        /\ out.feed.entries = <<>>
        /\ LET d == out.feed.description
               m == failure.msg
           IN  /\ m # <<>>
               /\ Len(d) > Len(m)
               /\ SubSeq(d, Len(d) - Len(m) + 1, Len(d)) = m

\* a fetch answered with a status that is not a success, and the request ended
C5_Witness ==
    /\ ValidRequest
    /\ pc = "done"
    /\ response = 404
    /\ fetches = 1
    /\ out.kind = "feed"
    /\ out.feed.description[Len(out.feed.description)] = "404"

\* C6 (order): in the emitted feed the item of an earlier row comes before the
\* item of a later row (read for a feed all of whose entries were added whole).
C6_DocumentOrder ==
    (ValidRequest /\ FeedDone /\ AllComplete(out.feed.entries)) =>
        \A a, b \in 1..Len(out.feed.entries) :
           a < b => out.feed.entries[a].row < out.feed.entries[b].row

\* C7: a row with a magnet anchor and a non-empty second cell yields exactly one
\* item whose id and link are the row's first magnet URI (read for a row the
\* loop examined under the cap and whose try block did not raise).
C7_OneItemPerRow ==
    (ValidRequest /\ pc = "loop" /\ loc.n = i /\ i >= 1 /\ loc.fail = "none"
       /\ HasMagnet(rows[i]) /\ SecondCellNonEmpty(rows[i])) =>
        /\ Cardinality(EntriesOf(fg.entries, i)) = 1
        /\ \A k \in EntriesOf(fg.entries, i) :
              /\ fg.entries[k].id = FirstMagnetHref(rows[i])
              /\ fg.entries[k].link = FirstMagnetHref(rows[i])

\* C8: the title of a row with a magnet anchor is the text of the second cell's
\* anchor if that cell has one, else the trimmed text of the second cell, and
\* the row is skipped when that is empty; nothing else decides the title.
C8_TitleFromSecondCell ==
    (ValidRequest /\ pc = "loop" /\ loc.n = i /\ i >= 1
       /\ loc.what \in {"add", "no_title"}) =>
        LET row == rows[i]
            second == IF Len(row) < 2 THEN <<>>
                      ELSE IF AnchorsOf(row[2].nodes) # <<>>
                           THEN Strip(AnchorsOf(row[2].nodes)[1].raw)
                           ELSE GetText(row[2].nodes)
        IN  /\ loc.what = "no_title" <=> second = <<>>
            /\ loc.what = "add" => loc.item_title = second

C10_FailedRowLeavesNothing ==
    ValidRequest =>
        /\ (loc.what \in {"no_magnet", "no_title"}
              \/ (loc.what = "add" /\ loc.fail # "none"))
             => EntriesOf(fg.entries, loc.n) = {}
        /\ failure.kind # "rss"
====
